---- MODULE Spec2Model ----
(***************************************************************************)
(* The attention scoring engine of ai_cam_monitor (AttentionScorer in      *)
(* src/src/utils/attentionScorer.ts) as a state machine, with the gaze     *)
(* estimator that classifies the frames (GazeEstimator) and the frame loop *)
(* of the dashboard that feeds the engine (MonitoringDashboard.tsx).       *)
(*                                                                         *)
(* Units.  Time is in milliseconds, as Date.getTime() reports it.  Angles  *)
(* are whole degrees.  A face confidence c is carried as the integer       *)
(* 1000*c.  Math.round(x) is floor(x + 1/2); every rounded quantity of the *)
(* engine is a ratio num/den of integers here, so Round(num, den) is exact *)
(* rational arithmetic (IEEE-754 rounding noise is not modelled).          *)
(***************************************************************************)
EXTENDS Integers, Sequences, FiniteSets, TLC

VARIABLES
    gazeHistory,              \* AttentionScorer.gazeHistory
    violations,               \* AttentionScorer.violations
    consecutiveDistractions,  \* AttentionScorer.consecutiveDistractions
    clock,                    \* the wall clock read by new Date() / Date.now()
    score,                    \* the AttentionScore the last updateScore returned
    lastCall,                 \* the last operation and its arguments
    addCalls,                 \* the addViolation calls the last updateScore made
    poseLog,                  \* focus states of the pose-present updates since the last clear
    thresholdAt,              \* clock of the update that made the current run 10 frames long, or -1
    classified,               \* the last detection given to GazeEstimator.estimateGaze, and its result
    isMonitoring,             \* MonitoringDashboard: useState isMonitoring
    isInitializing,           \* MonitoringDashboard: useState isInitializing
    initialized,              \* MonitoringDashboard: useState initialized
    animationFrameRef,        \* MonitoringDashboard: animationFrameRef.current
    starting,                 \* the startMonitoring calls made, and how many are at each await
    chains,                   \* the processFrames chains started, each at its await or request
    videoReady,               \* the video element has a stream and readyState 4
    lastFrame                 \* the last frame whose analyses completed: what it met, what it left

engine == <<gazeHistory, violations, consecutiveDistractions, clock, score,
            lastCall, addCalls, poseLog, thresholdAt>>

dashboard == <<isMonitoring, isInitializing, initialized, animationFrameRef, starting,
               chains, videoReady, lastFrame>>

vars == <<engine, classified, dashboard>>

----------------------------------------------------------------------------
(* Program constants *)

HISTORY_SIZE == 30
DISTRACTION_THRESHOLD == 10
GAZE_WINDOW == 10
DEDUP_LOOKBACK == 5
DEDUP_WINDOW_MS == 2000
MULTIPLE_FACES_SCORE == 30
OBJECT_PENALTY == 30

(* Bounds of the model *)

MaxPoses == 2         \* Spec: pose-present updates since the last clear
MaxLogTime == 2900    \* SpecLog: the clock stops advancing here
MaxHistPoses == 32    \* SpecHistory: pose-present updates since the last clear
MaxSwitches == 1      \* SpecHistory, SpecStreak: changes of focus state since the last clear
MaxRunPoses == 11     \* SpecStreak: pose-present updates since the last clear
MaxRunTime == 2100    \* SpecStreak: the clock stops advancing here
MaxFocusPoses == 10   \* SpecFocus: pose-present updates since the last clear
MaxLimit == 7         \* SpecLog: limits given to getViolations
MaxQueryPoses == 2    \* SpecQuery: pose-present updates since the last clear
MaxQueryTime == 2000  \* SpecQuery: the clock stops advancing here
MaxStarts == 2        \* SpecLoop: clicks on Start
MaxLoopFrames == 2    \* SpecLoop: frames whose analyses complete
MaxLoopTime == 1000   \* SpecLoop: the clock stops advancing here
QuietFrames == 9      \* SpecStreak: other violations come with a pose, once the streak is this long
MaxKindPoses == 12    \* SpecKinds: pose-present updates since the last clear
MaxKindTime == 2000   \* SpecKinds: the clock stops advancing here

----------------------------------------------------------------------------
(* Arithmetic and array helpers *)

Abs(x) == IF x < 0 THEN -x ELSE x
Max(a, b) == IF a >= b THEN a ELSE b
Min(a, b) == IF a <= b THEN a ELSE b

\* Math.round(num / den) for den > 0: the nearest integer, halves towards +infinity.
Round(num, den) == (2 * num + den) \div (2 * den)

\* Array.prototype.slice(-n)
SliceLast(s, n) == SubSeq(s, Max(1, Len(s) - n + 1), Len(s))

\* Array.prototype.filter(...).length
CountState(s, wanted) == Len(SelectSeq(s, LAMBDA state : state = wanted))

\* the last n elements of a stream, oldest first
LastN(stream, n) == [i \in 1..n |-> stream[Len(stream) - n + i]]

\* the number of entries at the end of a stream that are not "focused"
TrailingNonFocused(stream) ==
    LET focusedAt == {i \in DOMAIN stream : stream[i] = "focused"}
    IN  Len(stream) - (IF focusedAt = {} THEN 0
                       ELSE CHOOSE i \in focusedAt : \A j \in focusedAt : j <= i)

----------------------------------------------------------------------------
(* addViolation, attentionScorer.ts 171-189 *)

\* mutant: the window test written <= 2000
recentViolationInclusive(log, type, now) ==
    \E i \in DOMAIN SliceLast(log, DEDUP_LOOKBACK) :
        LET v == SliceLast(log, DEDUP_LOOKBACK)[i] IN
            v.type = type /\ (now - v.timestamp) <= DEDUP_WINDOW_MS

\* mutant: the window is taken in seconds against a difference in milliseconds
recentViolationSeconds(log, type, now) ==
    \E i \in DOMAIN SliceLast(log, DEDUP_LOOKBACK) :
        LET v == SliceLast(log, DEDUP_LOOKBACK)[i] IN
            v.type = type /\ (now - v.timestamp) < 2

\* mutant: only the 3 most recent entries are scanned
recentViolationShortScan(log, type, now) ==
    \E i \in DOMAIN SliceLast(log, 3) :
        LET v == SliceLast(log, 3)[i] IN
            v.type = type /\ (now - v.timestamp) < DEDUP_WINDOW_MS

\* .slice(-5).find(v => v.type === type && now - v.timestamp < 2000) is defined
recentViolation(log, type, now) ==
    \E i \in DOMAIN SliceLast(log, DEDUP_LOOKBACK) :
        LET v == SliceLast(log, DEDUP_LOOKBACK)[i] IN
            v.type = type /\ (now - v.timestamp) < DEDUP_WINDOW_MS

\* mutant: the id is the clock value alone
makeEventClockId(violation, now) ==
    [type |-> violation.type, severity |-> violation.severity,
     description |-> violation.description, metadata |-> violation.metadata,
     id |-> <<now>>, timestamp |-> now]

\* the event pushed: the violation's own fields, the id `${type}_${Date.now()}` and the
\* timestamp; the clock does not advance between the two reads of one call (173, 183)
makeEvent(violation, now) ==
    [type |-> violation.type, severity |-> violation.severity,
     description |-> violation.description, metadata |-> violation.metadata,
     id |-> <<violation.type, now>>, timestamp |-> now]

addViolation(log, violation, now) ==
    IF recentViolation(log, violation.type, now)
    THEN log
    ELSE Append(log, makeEvent(violation, now))

\* One addViolation call made on the log of ctx, recorded in ctx.calls.
call(ctx, violation, now) ==
    LET after == addViolation(ctx.log, violation, now) IN
        [log |-> after,
         calls |-> Append(ctx.calls, [violation |-> violation, now |-> now,
                                      before |-> ctx.log, after |-> after])]

NoMeta == [none |-> TRUE]

----------------------------------------------------------------------------
(* The component scores, attentionScorer.ts 90-169 *)

\* mutant: the whole history is averaged (no slice(-10))
calculateGazeScoreWhole(gazeData, history) ==
    IF ~gazeData.present THEN 0
    ELSE LET focusedCount == CountState(history, "focused")
             distractedCount == CountState(history, "distracted")
         IN  IF Len(history) = 0 THEN 50
             ELSE Round(focusedCount * 100 + distractedCount * 50, Len(history))

\* mutant: the test of line 91 for an absent pose is missing
calculateGazeScoreNoNullTest(gazeData, history) ==
    LET recentHistory == SliceLast(history, GAZE_WINDOW)
        focusedCount == CountState(recentHistory, "focused")
        distractedCount == CountState(recentHistory, "distracted")
    IN  IF Len(recentHistory) = 0 THEN 50
        ELSE Round(focusedCount * 100 + distractedCount * 50, Len(recentHistory))

calculateGazeScore(gazeData, history) ==
    IF ~gazeData.present THEN 0
    ELSE LET recentHistory == SliceLast(history, GAZE_WINDOW)
             focusedCount == CountState(recentHistory, "focused")
             distractedCount == CountState(recentHistory, "distracted")
         IN  IF Len(recentHistory) = 0 THEN 50
             ELSE Round(focusedCount * 100 + distractedCount * 50, Len(recentHistory))

\* mutant: the multipliers of yaw and pitch are exchanged
calculateHeadPoseScoreSwapped(gazeData) ==
    IF ~gazeData.present THEN 0
    ELSE LET yawScore == Max(0, 10000 - Abs(gazeData.headPose.yaw) * 333)
             pitchScore == Max(0, 10000 - Abs(gazeData.headPose.pitch) * 250)
             rollScore == Max(0, 10000 - Abs(gazeData.headPose.roll) * 500)
         IN  Round(yawScore + pitchScore + rollScore, 300)

\* mutant: the three Math.max(0, ...) clamps are missing
calculateHeadPoseScoreUnclamped(gazeData) ==
    IF ~gazeData.present THEN 0
    ELSE LET yawScore == 10000 - Abs(gazeData.headPose.yaw) * 250
             pitchScore == 10000 - Abs(gazeData.headPose.pitch) * 333
             rollScore == 10000 - Abs(gazeData.headPose.roll) * 500
         IN  Round(yawScore + pitchScore + rollScore, 300)

\* yawScore, pitchScore and rollScore in hundredths: 2.5 = 250/100, 3.33 = 333/100, 5 = 500/100
calculateHeadPoseScore(gazeData) ==
    IF ~gazeData.present THEN 0
    ELSE LET yawScore == Max(0, 10000 - Abs(gazeData.headPose.yaw) * 250)
             pitchScore == Max(0, 10000 - Abs(gazeData.headPose.pitch) * 333)
             rollScore == Max(0, 10000 - Abs(gazeData.headPose.roll) * 500)
         IN  Round(yawScore + pitchScore + rollScore, 300)

\* mutant: several faces score 30 but raise nothing
calculateFacePresenceScoreSilent(ctx, faceData, now) ==
    IF ~faceData.faceDetected
    THEN [value |-> 0,
          ctx |-> call(ctx, [type |-> "no_face", severity |-> "high",
                             description |-> <<"No face detected in frame">>,
                             metadata |-> NoMeta], now)]
    ELSE IF faceData.multipleFaces
    THEN [value |-> MULTIPLE_FACES_SCORE, ctx |-> ctx]
    ELSE [value |-> Round(faceData.confidence * 100, 1000), ctx |-> ctx]

\* returns the score and the log context after the addViolation call, if any
calculateFacePresenceScore(ctx, faceData, now) ==
    IF ~faceData.faceDetected
    THEN [value |-> 0,
          ctx |-> call(ctx, [type |-> "no_face", severity |-> "high",
                             description |-> <<"No face detected in frame">>,
                             metadata |-> NoMeta], now)]
    ELSE IF faceData.multipleFaces
    THEN [value |-> MULTIPLE_FACES_SCORE,
          ctx |-> call(ctx, [type |-> "multiple_faces", severity |-> "high",
                             description |-> <<faceData.faceCount, "faces detected (expected 1)">>,
                             metadata |-> [faceCount |-> faceData.faceCount]], now)]
    ELSE [value |-> Round(faceData.confidence * 100, 1000), ctx |-> ctx]

\* mutant: every prohibited detection is pushed, without the scan of addViolation
RECURSIVE forEachProhibitedPush(_, _, _)
forEachProhibitedPush(ctx, prohibitedObjects, now) ==
    IF prohibitedObjects = <<>> THEN ctx
    ELSE LET obj == Head(prohibitedObjects)
             violation == [type |-> "prohibited_object", severity |-> "high",
                           description |-> <<"Prohibited object detected:", obj.label>>,
                           metadata |-> [object |-> obj.label, confidence |-> obj.score]]
             after == Append(ctx.log, makeEvent(violation, now))
         IN  forEachProhibitedPush(
                 [log |-> after,
                  calls |-> Append(ctx.calls, [violation |-> violation, now |-> now,
                                               before |-> ctx.log, after |-> after])],
                 Tail(prohibitedObjects), now)

\* prohibitedObjects.forEach(obj => this.addViolation({...}))
RECURSIVE forEachProhibited(_, _, _)
forEachProhibited(ctx, prohibitedObjects, now) ==
    IF prohibitedObjects = <<>> THEN ctx
    ELSE LET obj == Head(prohibitedObjects) IN
         forEachProhibited(
             call(ctx, [type |-> "prohibited_object", severity |-> "high",
                        description |-> <<"Prohibited object detected:", obj.label>>,
                        metadata |-> [object |-> obj.label, confidence |-> obj.score]], now),
             Tail(prohibitedObjects), now)

\* mutant: Math.max(0, ...) is missing
calculateObjectScoreUnclamped(ctx, objects, now) ==
    LET prohibitedObjects == SelectSeq(objects, LAMBDA obj : obj.isProhibited) IN
        IF Len(prohibitedObjects) > 0
        THEN [value |-> 100 - Len(prohibitedObjects) * OBJECT_PENALTY,
              ctx |-> forEachProhibited(ctx, prohibitedObjects, now)]
        ELSE [value |-> 100, ctx |-> ctx]

calculateObjectScore(ctx, objects, now) ==
    LET prohibitedObjects == SelectSeq(objects, LAMBDA obj : obj.isProhibited) IN
        IF Len(prohibitedObjects) > 0
        THEN [value |-> Max(0, 100 - Len(prohibitedObjects) * OBJECT_PENALTY),
              ctx |-> forEachProhibited(ctx, prohibitedObjects, now)]
        ELSE [value |-> 100, ctx |-> ctx]

\* mutant: the first band excludes its lower bound
determineLevelStrict(s) ==
    IF s > 90 THEN "excellent"
    ELSE IF s >= 75 THEN "good"
    ELSE IF s >= 60 THEN "fair"
    ELSE IF s >= 40 THEN "poor"
    ELSE "critical"

determineLevel(s) ==
    IF s >= 90 THEN "excellent"
    ELSE IF s >= 75 THEN "good"
    ELSE IF s >= 60 THEN "fair"
    ELSE IF s >= 40 THEN "poor"
    ELSE "critical"

\* mutant: the weights of facePresence and objects are exchanged
weightedOverallExchanged(gazeScore, headPoseScore, facePresenceScore, objectScore) ==
    Round(gazeScore * 35 + headPoseScore * 25 + facePresenceScore * 15 + objectScore * 25, 100)

\* mutant: Math.floor for Math.round
weightedOverallFloor(gazeScore, headPoseScore, facePresenceScore, objectScore) ==
    (gazeScore * 35 + headPoseScore * 25 + facePresenceScore * 25 + objectScore * 15) \div 100

\* Math.round(gaze*0.35 + headPose*0.25 + facePresence*0.25 + objects*0.15)
weightedOverall(gazeScore, headPoseScore, facePresenceScore, objectScore) ==
    Round(gazeScore * 35 + headPoseScore * 25 + facePresenceScore * 25 + objectScore * 15, 100)

----------------------------------------------------------------------------
(* updateScore, attentionScorer.ts 35-88 *)

\* mutant: the newest entry is dropped on overflow (pop for shift)
pushHistoryPop(history, focusState) ==
    LET pushed == Append(history, focusState) IN
        IF Len(pushed) > HISTORY_SIZE THEN SubSeq(pushed, 1, Len(pushed) - 1) ELSE pushed

\* lines 42-45: push, then shift once the length exceeds HISTORY_SIZE
pushHistory(history, focusState) ==
    LET pushed == Append(history, focusState) IN
        IF Len(pushed) > HISTORY_SIZE THEN Tail(pushed) ELSE pushed

\* mutant: the else branch that resets the streak is missing
nextStreakNoReset(streak, focusState) ==
    IF focusState # "focused" THEN streak + 1 ELSE streak

\* mutant: the streak starts over once the violation has been raised
nextStreakRestart(streak, focusState) ==
    IF focusState # "focused"
    THEN (IF streak >= DISTRACTION_THRESHOLD THEN 1 ELSE streak + 1)
    ELSE 0

\* lines 48-60: the streak after this frame
nextStreak(streak, focusState) ==
    IF focusState # "focused" THEN streak + 1 ELSE 0

\* mutant: the threshold is reached one frame early
trackDistractionEarly(ctx, gazeData, streak, now) ==
    IF gazeData.focusState # "focused" /\ streak + 1 >= DISTRACTION_THRESHOLD
    THEN call(ctx, [type |-> "prolonged_distraction", severity |-> "medium",
                    description |-> <<"Student distracted for", streak, "frames">>,
                    metadata |-> [focusState |-> gazeData.focusState, duration |-> streak]], now)
    ELSE ctx

\* mutant: a run of frames looking away is logged as gaze_away, severity low
trackDistractionGazeAway(ctx, gazeData, streak, now) ==
    IF gazeData.focusState # "focused" /\ streak >= DISTRACTION_THRESHOLD
    THEN IF gazeData.focusState = "away"
         THEN call(ctx, [type |-> "gaze_away", severity |-> "low",
                         description |-> <<"Student looking away for", streak, "frames">>,
                         metadata |-> [focusState |-> gazeData.focusState, duration |-> streak]],
                   now)
         ELSE call(ctx, [type |-> "prolonged_distraction", severity |-> "medium",
                         description |-> <<"Student distracted for", streak, "frames">>,
                         metadata |-> [focusState |-> gazeData.focusState, duration |-> streak]],
                   now)
    ELSE ctx

\* lines 50-57: the prolonged_distraction call, made when the streak has reached the threshold
trackDistraction(ctx, gazeData, streak, now) ==
    IF gazeData.focusState # "focused" /\ streak >= DISTRACTION_THRESHOLD
    THEN call(ctx, [type |-> "prolonged_distraction", severity |-> "medium",
                    description |-> <<"Student distracted for", streak, "frames">>,
                    metadata |-> [focusState |-> gazeData.focusState, duration |-> streak]], now)
    ELSE ctx

\* mutant: a frame without a pose resets the streak, as a focused frame does
updateScoreAbsentResets(gazeData, faceData, objects) ==
    LET now == clock
        history == IF gazeData.present THEN pushHistory(gazeHistory, gazeData.focusState)
                   ELSE gazeHistory
        streak == IF gazeData.present
                  THEN nextStreak(consecutiveDistractions, gazeData.focusState)
                  ELSE 0
        ctx0 == [log |-> violations, calls |-> <<>>]
        ctx1 == IF gazeData.present THEN trackDistraction(ctx0, gazeData, streak, now) ELSE ctx0
        gazeScore == calculateGazeScore(gazeData, history)
        headPoseScore == calculateHeadPoseScore(gazeData)
        face == calculateFacePresenceScore(ctx1, faceData, now)
        obj == calculateObjectScore(face.ctx, objects, now)
        overall == weightedOverall(gazeScore, headPoseScore, face.value, obj.value)
    IN  /\ gazeHistory' = history
        /\ consecutiveDistractions' = streak
        /\ violations' = obj.ctx.log
        /\ score' = [overall |-> overall, gaze |-> gazeScore, headPose |-> headPoseScore,
                     facePresence |-> face.value, objectsDetected |-> obj.value,
                     level |-> determineLevel(overall)]
        /\ addCalls' = obj.ctx.calls
        /\ lastCall' = [op |-> "updateScore", gazeData |-> gazeData, faceData |-> faceData,
                        objects |-> objects, now |-> now]
        /\ poseLog' = IF gazeData.present THEN Append(poseLog, gazeData.focusState) ELSE poseLog
        /\ thresholdAt' = IF ~gazeData.present THEN thresholdAt
                          ELSE IF gazeData.focusState = "focused" THEN -1
                          ELSE IF TrailingNonFocused(poseLog) = 9 THEN now
                          ELSE thresholdAt
        /\ UNCHANGED clock

\* updateScore, attentionScorer.ts 35-88
updateScore(gazeData, faceData, objects) ==
    LET now == clock
        history == IF gazeData.present THEN pushHistory(gazeHistory, gazeData.focusState)
                   ELSE gazeHistory
        streak == IF gazeData.present
                  THEN nextStreak(consecutiveDistractions, gazeData.focusState)
                  ELSE consecutiveDistractions
        ctx0 == [log |-> violations, calls |-> <<>>]
        ctx1 == IF gazeData.present THEN trackDistraction(ctx0, gazeData, streak, now) ELSE ctx0
        gazeScore == calculateGazeScore(gazeData, history)
        headPoseScore == calculateHeadPoseScore(gazeData)
        face == calculateFacePresenceScore(ctx1, faceData, now)
        obj == calculateObjectScore(face.ctx, objects, now)
        overall == weightedOverall(gazeScore, headPoseScore, face.value, obj.value)
    IN  /\ gazeHistory' = history
        /\ consecutiveDistractions' = streak
        /\ violations' = obj.ctx.log
        /\ score' = [overall |-> overall, gaze |-> gazeScore, headPose |-> headPoseScore,
                     facePresence |-> face.value, objectsDetected |-> obj.value,
                     level |-> determineLevel(overall)]
        /\ addCalls' = obj.ctx.calls
        /\ lastCall' = [op |-> "updateScore", gazeData |-> gazeData, faceData |-> faceData,
                        objects |-> objects, now |-> now]
        /\ poseLog' = IF gazeData.present THEN Append(poseLog, gazeData.focusState) ELSE poseLog
        /\ thresholdAt' = IF ~gazeData.present THEN thresholdAt
                          ELSE IF gazeData.focusState = "focused" THEN -1
                          ELSE IF TrailingNonFocused(poseLog) = 9 THEN now
                          ELSE thresholdAt
        /\ UNCHANGED clock

\* mutant: only the log is emptied
clearViolationsLogOnly ==
    /\ violations' = <<>>
    /\ lastCall' = [op |-> "clearViolations"]
    /\ addCalls' = <<>>
    /\ poseLog' = <<>>
    /\ thresholdAt' = -1
    /\ UNCHANGED <<gazeHistory, consecutiveDistractions, clock, score>>

\* clearViolations, attentionScorer.ts 198-202
clearViolations ==
    /\ violations' = <<>>
    /\ gazeHistory' = <<>>
    /\ consecutiveDistractions' = 0
    /\ lastCall' = [op |-> "clearViolations"]
    /\ addCalls' = <<>>
    /\ poseLog' = <<>>
    /\ thresholdAt' = -1
    /\ UNCHANGED <<clock, score>>

\* Array.prototype.slice(0, end)
SliceFirst(s, end) ==
    SubSeq(s, 1, IF end < 0 THEN Max(0, Len(s) + end) ELSE Min(end, Len(s)))

\* [...log].sort((a, b) => b.timestamp - a.timestamp): newest first, and stable, so
\* entries of equal timestamp keep the order of the log
RECURSIVE sortNewestFirst(_)
sortNewestFirst(log) ==
    IF log = <<>> THEN <<>>
    ELSE LET sorted == sortNewestFirst(SubSeq(log, 1, Len(log) - 1))
             v == log[Len(log)]
             k == Cardinality({i \in DOMAIN sorted : sorted[i].timestamp >= v.timestamp})
         IN  SubSeq(sorted, 1, k) \o <<v>> \o SubSeq(sorted, k + 1, Len(sorted))

\* the optional parameter limit?: number
NoLimit == [present |-> FALSE]
Limit(n) == [present |-> TRUE, value |-> n]

\* getViolations, attentionScorer.ts 191-196: `limit ? ...` is false for undefined and for 0
getViolations(limit) ==
    LET sorted == sortNewestFirst(violations) IN
        IF limit.present /\ limit.value # 0 THEN SliceFirst(sorted, limit.value) ELSE sorted

\* mutant: every entry counts 1, the count already there is lost
RECURSIVE countByOverwrite(_, _, _)
countByOverwrite(log, field, acc) ==
    IF log = <<>> THEN acc
    ELSE LET key == Head(log)[field] IN
         countByOverwrite(Tail(log), field,
                 IF key \in DOMAIN acc THEN [acc EXCEPT ![key] = 1] ELSE acc @@ (key :> 1))

\* log.reduce((acc, v) => { acc[v.field] = (acc[v.field] || 0) + 1; return acc; }, acc)
RECURSIVE countBy(_, _, _)
countBy(log, field, acc) ==
    IF log = <<>> THEN acc
    ELSE LET key == Head(log)[field] IN
         countBy(Tail(log), field,
                 IF key \in DOMAIN acc THEN [acc EXCEPT ![key] = @ + 1] ELSE acc @@ (key :> 1))

\* the empty object {} the reductions start from
EmptyRecord == [key \in {} |-> 0]

\* getStats, attentionScorer.ts 204-216
getStats ==
    [totalViolations |-> Len(violations),
     byType |-> countBy(violations, "type", EmptyRecord),
     bySeverity |-> countBy(violations, "severity", EmptyRecord)]

\* mutant: the log itself is sorted, not a copy of it
callGetViolationsInPlace(limit) ==
    /\ violations' = sortNewestFirst(violations)
    /\ lastCall' = [op |-> "getViolations", limit |-> limit, result |-> getViolations(limit)]
    /\ UNCHANGED <<gazeHistory, consecutiveDistractions, clock, score, addCalls,
                   poseLog, thresholdAt>>

\* a call of getViolations(limit): [...this.violations] is sorted and returned, line 192
callGetViolations(limit) ==
    /\ lastCall' = [op |-> "getViolations", limit |-> limit, result |-> getViolations(limit)]
    /\ UNCHANGED <<gazeHistory, violations, consecutiveDistractions, clock, score,
                   addCalls, poseLog, thresholdAt>>

\* a call of getStats(): the counts are reduced into fresh objects, lines 205-215
callGetStats ==
    /\ lastCall' = [op |-> "getStats", result |-> getStats]
    /\ UNCHANGED <<gazeHistory, violations, consecutiveDistractions, clock, score,
                   addCalls, poseLog, thresholdAt>>

\* the wall clock moves forward by d ms between two calls
tick(d) ==
    /\ clock' = clock + d
    /\ UNCHANGED <<gazeHistory, violations, consecutiveDistractions, score,
                   lastCall, addCalls, poseLog, thresholdAt>>

NoScore == [none |-> TRUE]

\* the engine as constructed, attentionScorer.ts 29-33
Init ==
    /\ gazeHistory = <<>>
    /\ violations = <<>>
    /\ consecutiveDistractions = 0
    /\ clock = 0
    /\ score = NoScore
    /\ lastCall = [op |-> "new"]
    /\ addCalls = <<>>
    /\ poseLog = <<>>
    /\ thresholdAt = -1
    /\ classified = [results |-> [initialized |-> FALSE], gaze |-> [present |-> FALSE]]
    /\ isMonitoring = FALSE
    /\ isInitializing = FALSE
    /\ initialized = FALSE
    /\ animationFrameRef = 0
    /\ starting = [calls |-> 0, initializeModels |-> 0, startWebcam |-> 0, setTimeout |-> 0]
    /\ chains = <<>>
    /\ videoReady = FALSE
    /\ lastFrame = [n |-> 0]

----------------------------------------------------------------------------
(* Inputs *)

FocusStates == {"focused", "distracted", "away"}

NoGaze == [present |-> FALSE]
Gaze(focusState, pitch, yaw, roll) ==
    [present |-> TRUE, focusState |-> focusState,
     headPose |-> [pitch |-> pitch, yaw |-> yaw, roll |-> roll]]

\* FaceVerificationResult as faceVerifier.ts builds it (part_000 170-199)
NoFace == [faceCount |-> 0, faceDetected |-> FALSE, multipleFaces |-> FALSE, confidence |-> 0]
Faces(n, confidence) ==
    [faceCount |-> n, faceDetected |-> TRUE, multipleFaces |-> n > 1, confidence |-> confidence]

Detected(label, isProhibited, s) == [label |-> label, score |-> s, isProhibited |-> isProhibited]
Phone == Detected("cell phone", TRUE, 910)
Book == Detected("book", TRUE, 640)
Laptop == Detected("laptop", TRUE, 550)
Mouse == Detected("mouse", TRUE, 420)
Remote == Detected("remote", TRUE, 310)
Person == Detected("person", FALSE, 990)

\* number of places where the stream of focus states changes value
Switches(stream) == Cardinality({i \in 1..(Len(stream) - 1) : stream[i] # stream[i + 1]})

\* Spec: the scores.  Numeric inputs inside and outside their documented ranges.
GazeInputs ==
    {NoGaze, Gaze("focused", 0, 0, 0), Gaze("focused", 12, -18, 0),
     Gaze("distracted", 5, 10, -4), Gaze("distracted", 20, 30, 10), Gaze("away", -40, 60, 25)}
FaceInputs == {NoFace, Faces(2, 900)} \cup {Faces(1, c) : c \in {-200, 876, 1000, 1500}}
ObjectInputs == {<<>>, <<Person, Phone>>, <<Phone, Book, Laptop, Mouse>>}

Frame ==
    \E g \in GazeInputs, f \in FaceInputs, o \in ObjectInputs :
        /\ g.present => Len(poseLog) < MaxPoses
        /\ updateScore(g, f, o)
        /\ UNCHANGED <<classified, dashboard>>

Clear == lastCall.op = "updateScore" /\ clearViolations /\ UNCHANGED <<classified, dashboard>>

Next == Frame \/ Clear

Spec == Init /\ [][Next]_vars

\* SpecLog: the violation log and its dedup, with the pose absent.
LogFaceInputs == {Faces(1, 1000), NoFace, Faces(2, 900)}
LogObjectInputs == {<<>>, <<Phone>>, <<Phone, Book>>}
LogDeltas == {1000, 1900}

LogFrame ==
    \E f \in LogFaceInputs, o \in LogObjectInputs :
        /\ updateScore(NoGaze, f, o)
        /\ UNCHANGED <<classified, dashboard>>

LogTick == \E d \in LogDeltas : clock + d <= MaxLogTime /\ tick(d) /\ UNCHANGED <<classified, dashboard>>

LogClear == lastCall.op = "updateScore" /\ clearViolations /\ UNCHANGED <<classified, dashboard>>

NextLog == LogFrame \/ LogTick \/ LogClear

SpecLog == Init /\ [][NextLog]_vars

\* SpecHistory: long streams of focus states, enough to overflow the history.
HistGazeInputs == {NoGaze} \cup {Gaze(fs, 0, 0, 0) : fs \in FocusStates}

HistFrame ==
    \E g \in HistGazeInputs :
        /\ g.present => Len(poseLog) < MaxHistPoses
        /\ g.present => Switches(Append(poseLog, g.focusState)) <= MaxSwitches
        /\ updateScore(g, Faces(1, 1000), <<>>)
        /\ UNCHANGED <<classified, dashboard>>

HistClear == lastCall.op = "updateScore" /\ clearViolations /\ UNCHANGED <<classified, dashboard>>

NextHistory == HistFrame \/ HistClear

SpecHistory == Init /\ [][NextHistory]_vars

\* SpecStreak: distraction runs past the threshold, with time passing and other violations.
RunGazeInputs == {NoGaze} \cup {Gaze(fs, 0, 0, 0) : fs \in FocusStates}
RunQuietScene == <<Faces(1, 1000), <<>> >>
RunSceneInputs ==
    {<<Faces(1, 1000), <<>> >>, <<NoFace, <<Phone>> >>, <<Faces(2, 900), <<>> >>}
RunDeltas == {1000, 2100}

RunFrame ==
    \E g \in RunGazeInputs, scene \in RunSceneInputs :
        /\ g.present => Len(poseLog) < MaxRunPoses
        /\ g.present => Switches(Append(poseLog, g.focusState)) <= MaxSwitches
        /\ scene # RunQuietScene => (g.present /\ consecutiveDistractions >= QuietFrames)
        /\ updateScore(g, scene[1], scene[2])
        /\ UNCHANGED <<classified, dashboard>>

RunTick == \E d \in RunDeltas : clock + d <= MaxRunTime /\ tick(d) /\ UNCHANGED <<classified, dashboard>>

RunClear == lastCall.op = "updateScore" /\ clearViolations /\ UNCHANGED <<classified, dashboard>>

NextStreak == RunFrame \/ RunTick \/ RunClear

SpecStreak == Init /\ [][NextStreak]_vars

\* SpecKinds: the four kinds of violation the engine logs, interleaved, with time passing.
KindGazeInputs == {NoGaze, Gaze("away", 0, 0, 0)}
KindDeltas == {1000, 2000}
KindSceneInputs ==
    {RunQuietScene, <<NoFace, <<Person, Book, Phone>> >>, <<Faces(2, 900), <<>> >>}

KindFrame ==
    \E g \in KindGazeInputs, scene \in KindSceneInputs :
        /\ g.present => Len(poseLog) < MaxKindPoses
        /\ consecutiveDistractions < QuietFrames => (g.present /\ scene = RunQuietScene)
        /\ updateScore(g, scene[1], scene[2])
        /\ UNCHANGED <<classified, dashboard>>

KindTick == \E d \in KindDeltas : clock + d <= MaxKindTime /\ tick(d) /\ UNCHANGED <<classified, dashboard>>

KindClear == lastCall.op = "updateScore" /\ clearViolations /\ UNCHANGED <<classified, dashboard>>

NextKinds == KindFrame \/ KindTick \/ KindClear

SpecKinds == Init /\ [][NextKinds]_vars

\* SpecQuery: updates, clears and the two queries, in any order, with time passing.
QueryGazeInputs == {NoGaze, Gaze("away", 0, 0, 0)}
QueryDeltas == {1000, 2000}
QueryLimits == {NoLimit, Limit(20)}

QueryFrame ==
    \E g \in QueryGazeInputs, f \in {Faces(1, 1000), NoFace}, o \in {<<>>, <<Phone>>} :
        /\ g.present => Len(poseLog) < MaxQueryPoses
        /\ updateScore(g, f, o)
        /\ UNCHANGED <<classified, dashboard>>

QueryTick == \E d \in QueryDeltas : clock + d <= MaxQueryTime /\ tick(d) /\ UNCHANGED <<classified, dashboard>>

QueryClear == lastCall.op = "updateScore" /\ clearViolations /\ UNCHANGED <<classified, dashboard>>

QueryList == \E limit \in QueryLimits : callGetViolations(limit) /\ UNCHANGED <<classified, dashboard>>

QueryStats == callGetStats /\ UNCHANGED <<classified, dashboard>>

NextQuery == QueryFrame \/ QueryTick \/ QueryClear \/ QueryList \/ QueryStats

SpecQuery == Init /\ [][NextQuery]_vars

----------------------------------------------------------------------------
(* GazeEstimator, gazeEstimator.ts (part_001 82-265).  The eye aspect ratio
   is carried as the integer 1000*EAR and the confidence as 1000*c.  The
   landmarks of a face are carried as what the estimator measures on them:
   the three raw angles, in whole degrees, that calculateHeadPose computes
   with atan2 before it clamps them (lines 183, 186, 189), and the ratio
   calculateEyeAspectRatio returns (lines 196-221). *)

Pose(pitch, yaw, roll) == [pitch |-> pitch, yaw |-> yaw, roll |-> roll]

\* what estimateGaze meets: no model loaded, detectForVideo throwing, no face, one face
NotInitialized == [initialized |-> FALSE]
Thrown == [initialized |-> TRUE, threw |-> TRUE]
NoLandmarks == [initialized |-> TRUE, threw |-> FALSE, faceLandmarks |-> <<>>]
Landmarks(pitch, yaw, roll, ear) ==
    [initialized |-> TRUE, threw |-> FALSE,
     faceLandmarks |-> <<[raw |-> Pose(pitch, yaw, roll), eyeAspectRatio |-> ear]>>]

\* the GazeData record
GazeData(focusState, headPose, eyeAspectRatio, confidence, lookingAtScreen) ==
    [present |-> TRUE, focusState |-> focusState, headPose |-> headPose,
     eyeAspectRatio |-> eyeAspectRatio, confidence |-> confidence,
     lookingAtScreen |-> lookingAtScreen]

\* mutant: the roll is returned as measured
calculateHeadPoseRawRoll(landmarks) ==
    [pitch |-> Max(-30, Min(30, landmarks.raw.pitch)),
     yaw |-> Max(-45, Min(45, landmarks.raw.yaw)),
     roll |-> landmarks.raw.roll]

\* calculateHeadPose, part_001 167-194: the clamps of lines 190-192
calculateHeadPose(landmarks) ==
    [pitch |-> Max(-30, Min(30, landmarks.raw.pitch)),
     yaw |-> Max(-45, Min(45, landmarks.raw.yaw)),
     roll |-> Max(-20, Min(20, landmarks.raw.roll))]

\* mutant: the yaw and pitch thresholds are included
isLookingAtScreenInclusive(headPose, eyeAspectRatio) ==
    /\ Abs(headPose.yaw) <= 20
    /\ Abs(headPose.pitch) <= 15
    /\ eyeAspectRatio > 150

isLookingAtScreen(headPose, eyeAspectRatio) ==
    /\ Abs(headPose.yaw) < 20
    /\ Abs(headPose.pitch) < 15
    /\ eyeAspectRatio > 150

\* mutant: open eyes are enough to be focused
determineFocusStateEyesOnly(headPose, eyeAspectRatio, lookingAtScreen) ==
    IF eyeAspectRatio > 200 THEN "focused"
    ELSE IF Abs(headPose.yaw) > 35 \/ Abs(headPose.pitch) > 25 THEN "away"
    ELSE "distracted"

\* mutant: the away test comes first, with its thresholds included
determineFocusStateAwayFirst(headPose, eyeAspectRatio, lookingAtScreen) ==
    IF Abs(headPose.yaw) >= 35 \/ Abs(headPose.pitch) >= 25 THEN "away"
    ELSE IF lookingAtScreen /\ eyeAspectRatio > 200 THEN "focused"
    ELSE "distracted"

determineFocusState(headPose, eyeAspectRatio, lookingAtScreen) ==
    IF lookingAtScreen /\ eyeAspectRatio > 200 THEN "focused"
    ELSE IF Abs(headPose.yaw) > 35 \/ Abs(headPose.pitch) > 25 THEN "away"
    ELSE "distracted"

\* mutant: a frame without a face is reported as an absent pose
estimateGazeNoSentinel(results) ==
    IF ~results.initialized THEN NoGaze
    ELSE IF results.threw THEN NoGaze
    ELSE IF Len(results.faceLandmarks) = 0 THEN NoGaze
    ELSE LET landmarks == results.faceLandmarks[1]
             headPose == calculateHeadPose(landmarks)
             eyeAspectRatio == landmarks.eyeAspectRatio
             lookingAtScreen == isLookingAtScreen(headPose, eyeAspectRatio)
             focusState == determineFocusState(headPose, eyeAspectRatio, lookingAtScreen)
         IN  GazeData(focusState, headPose, eyeAspectRatio, 950, lookingAtScreen)

\* estimateGaze, part_001 129-165: null (NoGaze) without a model and when anything throws
estimateGaze(results) ==
    IF ~results.initialized THEN NoGaze
    ELSE IF results.threw THEN NoGaze
    ELSE IF Len(results.faceLandmarks) = 0
         THEN GazeData("away", Pose(0, 0, 0), 0, 0, FALSE)
    ELSE LET landmarks == results.faceLandmarks[1]
             headPose == calculateHeadPose(landmarks)
             eyeAspectRatio == landmarks.eyeAspectRatio
             lookingAtScreen == isLookingAtScreen(headPose, eyeAspectRatio)
             focusState == determineFocusState(headPose, eyeAspectRatio, lookingAtScreen)
         IN  GazeData(focusState, headPose, eyeAspectRatio, 950, lookingAtScreen)

\* SpecClassifier: the estimator alone, on raw angles and eye aspect ratios at, next to
\* and beyond every threshold and clamp.
RawPitches == {-40, -26, -25, -15, 0, 14, 15, 26, 31}
RawYaws == {-60, -36, -35, -20, 0, 19, 20, 36, 46}
RawRolls == {-90, 0, 20, 21}
EyeAspectRatios == {150, 151, 200, 201}

ClassifierInputs ==
    {NotInitialized, Thrown, NoLandmarks}
        \cup {Landmarks(pitch, yaw, roll, ear) :
                  pitch \in RawPitches, yaw \in RawYaws, roll \in RawRolls,
                  ear \in EyeAspectRatios}

Classify ==
    \E results \in ClassifierInputs :
        /\ classified' = [results |-> results, gaze |-> estimateGaze(results)]
        /\ UNCHANGED <<engine, dashboard>>

NextClassifier == Classify

SpecClassifier == Init /\ [][NextClassifier]_vars

\* SpecFocus: frames classified by the estimator, one face of confidence 1, no objects.
FocusLandmarks ==
    {Landmarks(0, 0, 0, 300), Landmarks(0, 1, 0, 300), Landmarks(12, -18, 0, 300),
     Landmarks(14, 19, 20, 250), Landmarks(0, 0, 0, 180), Landmarks(28, 40, 20, 300)}

FocusFrame ==
    \E m \in FocusLandmarks :
        /\ Len(poseLog) < MaxFocusPoses
        /\ Switches(Append(poseLog, estimateGaze(m).focusState)) <= MaxSwitches
        /\ updateScore(estimateGaze(m), Faces(1, 1000), <<>>)
        /\ UNCHANGED <<classified, dashboard>>

FocusClear == lastCall.op = "updateScore" /\ clearViolations /\ UNCHANGED <<classified, dashboard>>

NextFocus == FocusFrame \/ FocusClear

SpecFocus == Init /\ [][NextFocus]_vars

----------------------------------------------------------------------------
(* MonitoringDashboard.tsx: the Start/Stop button and the frame loop.  A
   startMonitoring call is at one of its awaits, and starting counts the
   calls at each of them; a processFrames chain is at
   its await of the three analyses or has a requestAnimationFrame pending.
   animationFrameRef is 0 for undefined and otherwise the number of the chain
   whose request it holds: the id it holds is that of a pending request
   exactly when that chain is at "requested".  The display state set from
   the results (setGazeData, setViolations, ...) is not part of the model. *)

\* what the face detector and the object detector meet, as NotInitialized and Thrown above
Detections(n, confidence) ==
    [initialized |-> TRUE, threw |-> FALSE, faceCount |-> n, confidence |-> confidence]
Objects(detected) == [initialized |-> TRUE, threw |-> FALSE, objects |-> detected]

\* verifyFace, part_000 154-215
verifyFace(results) ==
    IF ~results.initialized THEN NoFace
    ELSE IF results.threw THEN NoFace
    ELSE IF results.faceCount = 0 THEN NoFace
    ELSE Faces(results.faceCount, results.confidence)

\* detectObjects, attentionScorer.ts 276-323
detectObjects(results) ==
    IF ~results.initialized THEN <<>>
    ELSE IF results.threw THEN <<>>
    ELSE results.objects

\* the analyses that threw
Faults(gazeResults, faceResults, objectResults, overlaysThrow) ==
    {a \in {"gaze", "face", "objects", "overlays"} :
        \/ a = "gaze" /\ gazeResults.initialized /\ gazeResults.threw
        \/ a = "face" /\ faceResults.initialized /\ faceResults.threw
        \/ a = "objects" /\ objectResults.initialized /\ objectResults.threw
        \/ a = "overlays" /\ overlaysThrow}

\* startMonitoring up to its first await, lines 100-115; the button shows Start and is enabled
startMonitoring ==
    /\ ~isMonitoring
    /\ ~isInitializing
    /\ starting.calls < MaxStarts
    /\ IF ~initialized
       THEN /\ isInitializing' = TRUE
            /\ starting' = [starting EXCEPT !.calls = @ + 1, !.initializeModels = @ + 1]
       ELSE /\ starting' = [starting EXCEPT !.calls = @ + 1, !.startWebcam = @ + 1]
            /\ UNCHANGED isInitializing
    /\ UNCHANGED <<isMonitoring, initialized, animationFrameRef, chains, videoReady, lastFrame>>

\* initializeModels settles, lines 63-97: the models are loaded, or the error is shown
initializeModelsDone(loaded) ==
    /\ starting.initializeModels > 0
    /\ initialized' = (initialized \/ loaded)
    /\ isInitializing' = FALSE
    /\ starting' = [starting EXCEPT !.initializeModels = @ - 1, !.startWebcam = @ + 1]
    /\ UNCHANGED <<isMonitoring, animationFrameRef, chains, videoReady, lastFrame>>

\* startWebcam settles, lines 113-119 and 132-139: on a refusal the call ends
startWebcamDone(granted) ==
    /\ starting.startWebcam > 0
    /\ videoReady' = (videoReady \/ granted)
    /\ starting' = [starting EXCEPT !.startWebcam = @ - 1,
                                    !.setTimeout = IF granted THEN @ + 1 ELSE @]
    /\ UNCHANGED <<isMonitoring, isInitializing, initialized, animationFrameRef, chains,
                   lastFrame>>

\* processFrames from its entry to its first await or to its request, lines 158-200, for
\* chain k of cs: without a ready video the frame is requested again
processFrames(cs, ref, k) ==
    IF ~videoReady
    THEN [chains |-> [cs EXCEPT ![k] = [pc |-> "requested"]], ref |-> k]
    ELSE [chains |-> [cs EXCEPT ![k] = [pc |-> "awaiting", timestamp |-> clock]],
          ref |-> ref]

\* the 500 ms are over, lines 120-126: setIsMonitoring(true); processFrames()
timeoutDone ==
    /\ starting.setTimeout > 0
    /\ starting' = [starting EXCEPT !.setTimeout = @ - 1]
    /\ isMonitoring' = TRUE
    /\ LET k == Len(chains) + 1
           started == processFrames(Append(chains, [pc |-> "called"]),
                                    animationFrameRef, k)
       IN  /\ chains' = started.chains
           /\ animationFrameRef' = started.ref
    /\ UNCHANGED <<isInitializing, initialized, videoReady, lastFrame>>

\* stopMonitoring, lines 142-156; the button shows Stop and is enabled
stopMonitoring ==
    /\ isMonitoring
    /\ ~isInitializing
    /\ chains' = IF animationFrameRef # 0 /\ chains[animationFrameRef].pc = "requested"
                 THEN [chains EXCEPT ![animationFrameRef] = [pc |-> "cancelled"]]
                 ELSE chains
    /\ animationFrameRef' = 0
    /\ videoReady' = FALSE
    /\ isMonitoring' = FALSE
    /\ UNCHANGED <<isInitializing, initialized, starting, lastFrame>>

\* the browser runs the callback of a pending request
animationFrame(k) ==
    /\ chains[k].pc = "requested"
    /\ LET run == processFrames(chains, animationFrameRef, k)
       IN  /\ chains' = run.chains
           /\ animationFrameRef' = run.ref
    /\ UNCHANGED <<isMonitoring, isInitializing, initialized, starting, videoReady, lastFrame>>

\* mutant: an analysis that throws rejects the chain, which ends there
analysesDoneRejecting(k, gazeResults, faceResults, objectResults, overlaysThrow) ==
    LET faults == Faults(gazeResults, faceResults, objectResults, overlaysThrow) IN
    /\ chains[k].pc = "awaiting"
    /\ lastFrame.n < MaxLoopFrames
    /\ IF faults \ {"overlays"} = {}
       THEN /\ updateScore(estimateGaze(gazeResults), verifyFace(faceResults),
                           detectObjects(objectResults))
            /\ chains' = [chains EXCEPT ![k] = [pc |-> "requested"]]
            /\ animationFrameRef' = k
       ELSE /\ chains' = [chains EXCEPT ![k] = [pc |-> "cancelled"]]
            /\ UNCHANGED <<engine, animationFrameRef>>
    /\ lastFrame' = [n |-> lastFrame.n + 1, chain |-> k, timestamp |-> chains[k].timestamp,
                     faults |-> faults,
                     before |-> [violations |-> violations, gazeHistory |-> gazeHistory,
                                 consecutiveDistractions |-> consecutiveDistractions],
                     inOrder |-> lastFrame.n = 0 \/ chains[k].timestamp >= lastFrame.timestamp]
    /\ UNCHANGED <<isMonitoring, isInitializing, initialized, starting, videoReady>>

\* the three analyses of chain k have settled, lines 200-256: updateScore on their results,
\* the displays, and the next request, whatever was thrown meanwhile
analysesDone(k, gazeResults, faceResults, objectResults, overlaysThrow) ==
    /\ chains[k].pc = "awaiting"
    /\ lastFrame.n < MaxLoopFrames
    /\ updateScore(estimateGaze(gazeResults), verifyFace(faceResults),
                   detectObjects(objectResults))
    /\ chains' = [chains EXCEPT ![k] = [pc |-> "requested"]]
    /\ animationFrameRef' = k
    /\ lastFrame' = [n |-> lastFrame.n + 1, chain |-> k, timestamp |-> chains[k].timestamp,
                     faults |-> Faults(gazeResults, faceResults, objectResults, overlaysThrow),
                     before |-> [violations |-> violations, gazeHistory |-> gazeHistory,
                                 consecutiveDistractions |-> consecutiveDistractions],
                     inOrder |-> lastFrame.n = 0 \/ chains[k].timestamp >= lastFrame.timestamp]
    /\ UNCHANGED <<isMonitoring, isInitializing, initialized, starting, videoReady>>

\* SpecLoop: clicks on the button, the awaits settling in any order, time passing.
\* what the three analyses meet and whether drawOverlays throws: nothing wrong, one of the
\* four throwing, and no model loaded
LoopFine == <<Landmarks(0, 0, 0, 300), Detections(1, 1000), Objects(<<Phone>>), FALSE>>
LoopScenes ==
    {LoopFine,
     [LoopFine EXCEPT ![1] = Thrown], [LoopFine EXCEPT ![2] = Thrown],
     [LoopFine EXCEPT ![3] = Thrown], [LoopFine EXCEPT ![4] = TRUE],
     <<NotInitialized, NotInitialized, NotInitialized, FALSE>>}
LoopDeltas == {1000}

LoopStart == startMonitoring /\ UNCHANGED <<engine, classified>>

LoopInitialized ==
    \E loaded \in BOOLEAN : initializeModelsDone(loaded) /\ UNCHANGED <<engine, classified>>

LoopWebcam ==
    \E granted \in BOOLEAN : startWebcamDone(granted) /\ UNCHANGED <<engine, classified>>

LoopTimeout == timeoutDone /\ UNCHANGED <<engine, classified>>

LoopStop == stopMonitoring /\ UNCHANGED <<engine, classified>>

LoopCallback == \E k \in DOMAIN chains : animationFrame(k) /\ UNCHANGED <<engine, classified>>

LoopFrame ==
    \E k \in DOMAIN chains, scene \in LoopScenes :
        /\ scene[1] = NotInitialized => ~initialized
        /\ analysesDone(k, scene[1], scene[2], scene[3], scene[4])
        /\ UNCHANGED classified

LoopTick ==
    \E d \in LoopDeltas :
        clock + d <= MaxLoopTime /\ tick(d) /\ UNCHANGED <<classified, dashboard>>

NextLoop ==
    \/ LoopStart \/ LoopInitialized \/ LoopWebcam \/ LoopTimeout \/ LoopStop
    \/ LoopCallback \/ LoopFrame \/ LoopTick

SpecLoop == Init /\ [][NextLoop]_vars

----------------------------------------------------------------------------
(* Vocabulary of the properties *)

Updated == lastCall.op = "updateScore"

\* the entries of a log, as positions
OfType(log, type) == {i \in DOMAIN log : log[i].type = type}

\* an addViolation call that pushed its event / that left the log alone
Appended(c) ==
    /\ Len(c.after) = Len(c.before) + 1
    /\ SubSeq(c.after, 1, Len(c.before)) = c.before
    /\ c.after[Len(c.after)].type = c.violation.type
    /\ c.after[Len(c.after)].timestamp = c.now
Unchanged(c) == c.after = c.before

\* one of the 5 most recent entries has this kind and is less than 2000 ms old
DuplicateInLast5(log, type, now) ==
    \E i \in OfType(log, type) : i > Len(log) - 5 /\ now - log[i].timestamp < 2000

----------------------------------------------------------------------------
(* C1: addViolation appends the candidate event if and only if none of the 5
   most recent log entries has the same kind and is less than 2000 ms old;
   otherwise it leaves the log unchanged.  In particular, after any call the
   log holds exactly one entry of that kind less than 2000 ms old: a
   condition raised twice within 2000 ms is logged once, and raised again
   2000 ms or more after the logged entry it is logged a second time. *)
C1_DedupWindow ==
    \A k \in DOMAIN addCalls :
        LET c == addCalls[k]
            type == c.violation.type
        IN  /\ DuplicateInLast5(c.before, type, c.now) => Unchanged(c)
            /\ ~DuplicateInLast5(c.before, type, c.now) => Appended(c)
            /\ Cardinality({i \in OfType(c.after, type) :
                               c.now - c.after[i].timestamp < 2000}) = 1
            /\ (\A i \in OfType(c.before, type) : c.now - c.before[i].timestamp >= 2000)
                   => Appended(c)

\* one update whose first call is suppressed by an entry 1000 ms old and whose second
\* call appends although the log holds an entry of its kind, 2000 ms old
C1_Witness ==
    /\ Len(addCalls) >= 2
    /\ \E k \in DOMAIN addCalls :
           /\ Unchanged(addCalls[k])
           /\ \E i \in OfType(addCalls[k].before, addCalls[k].violation.type) :
                  addCalls[k].now - addCalls[k].before[i].timestamp \in 1..1999
    /\ \E k \in DOMAIN addCalls :
           /\ Appended(addCalls[k])
           /\ OfType(addCalls[k].before, addCalls[k].violation.type) # {}

----------------------------------------------------------------------------
(* C2: after any sequence of updateScore and clearViolations calls the
   history holds at most 30 entries and is, in order, the focus states of the
   most recent min(n, 30) pose-present updates since the last clear. *)
C2_HistoryWindow ==
    /\ Len(gazeHistory) <= 30
    /\ gazeHistory = LastN(poseLog, IF Len(poseLog) < 30 THEN Len(poseLog) ELSE 30)

\* more than 30 updates since the clear, the oldest evicted, two focus states in the window
C2_Witness ==
    /\ Len(poseLog) > 30
    /\ Len(gazeHistory) = 30
    /\ poseLog[1] # poseLog[Len(poseLog)]
    /\ gazeHistory[1] # gazeHistory[30]

(* C4: the streak is a non-negative integer, equal to the number of
   consecutive frames with a pose, ending at the latest one, whose focus state
   was not focused: a focused frame sets it to 0, a distracted or away frame
   adds exactly 1. *)
C4_StreakCount ==
    /\ consecutiveDistractions \in Nat
    /\ consecutiveDistractions = TrailingNonFocused(poseLog)

\* a run that went on after a focused frame had reset the streak
C4_Witness ==
    /\ consecutiveDistractions >= 2
    /\ consecutiveDistractions < Len(poseLog)

----------------------------------------------------------------------------
\* the prolonged_distraction calls of the last update
DistractionCalls == {k \in DOMAIN addCalls : addCalls[k].violation.type = "prolonged_distraction"}

\* the last call was an update with a pose whose focus state is not focused
NonFocusedUpdate ==
    /\ Updated
    /\ lastCall.gazeData.present
    /\ lastCall.gazeData.focusState # "focused"

(* C3: during a run of 10 or more consecutive non-focused updates, at every
   update of the run the 2 seconds ending at that update hold exactly one
   logged prolonged_distraction, whatever other violations were logged in
   between; and no two logged prolonged_distraction events are less than
   2000 ms apart, so no 2-second window holds two of them. *)
C3_OnePerWindow ==
    /\ (NonFocusedUpdate /\ TrailingNonFocused(poseLog) >= 10) =>
           Cardinality({i \in OfType(violations, "prolonged_distraction") :
                           /\ violations[i].timestamp <= lastCall.now
                           /\ lastCall.now - violations[i].timestamp < 2000}) = 1
    /\ \A i, j \in OfType(violations, "prolonged_distraction") :
           i < j => violations[j].timestamp - violations[i].timestamp >= 2000

\* an update of the run after which three events of the other kinds follow the
\* logged prolonged_distraction, which is less than 2000 ms old
C3_Witness ==
    /\ NonFocusedUpdate
    /\ TrailingNonFocused(poseLog) > 10
    /\ \E k \in DistractionCalls : Unchanged(addCalls[k])
    /\ \E i \in OfType(violations, "prolonged_distraction") :
           /\ Len(violations) >= i + 3
           /\ \A j \in (i + 1)..Len(violations) : violations[j].type # "prolonged_distraction"
           /\ lastCall.now - violations[i].timestamp \in 1..1999

(* C5: a prolonged_distraction event (severity medium) is submitted only by
   an update whose pose is non-focused and whose streak after the increment
   is at least 10; its duration is that streak and its focusState that
   frame's focus state; none is submitted, and none is in the log, with fewer
   than 10 consecutive non-focused frames behind it. *)
C5_DistractionEvent ==
    /\ \A k \in DistractionCalls :
           LET v == addCalls[k].violation IN
               /\ NonFocusedUpdate
               /\ TrailingNonFocused(poseLog) >= 10
               /\ v.severity = "medium"
               /\ v.metadata.duration = TrailingNonFocused(poseLog)
               /\ v.metadata.duration = consecutiveDistractions
               /\ v.metadata.focusState = lastCall.gazeData.focusState
               /\ v.metadata.focusState = poseLog[Len(poseLog)]
    /\ \A i \in OfType(violations, "prolonged_distraction") :
           /\ violations[i].severity = "medium"
           /\ violations[i].metadata.duration >= 10
           /\ violations[i].metadata.focusState \in {"distracted", "away"}
    /\ (Updated /\ TrailingNonFocused(poseLog) < 10) =>
           /\ DistractionCalls = {}
           /\ \A k \in DOMAIN addCalls :
                  OfType(addCalls[k].after, "prolonged_distraction")
                      = OfType(addCalls[1].before, "prolonged_distraction")

\* the event is appended by an away frame that ends a run begun by distracted frames
C5_Witness ==
    /\ \E k \in DistractionCalls : Appended(addCalls[k])
    /\ lastCall.gazeData.focusState = "away"
    /\ poseLog[Len(poseLog) - 1] = "distracted"
    /\ violations # <<>>
    /\ \E i \in OfType(violations, "prolonged_distraction") :
           violations[i].metadata = [focusState |-> "away", duration |-> 10]

(* C6: raising prolonged_distraction does not reset the streak.  In a
   non-focused run whose streak is at least 10, every update submits the
   violation once; it is not appended while the most recently logged
   prolonged_distraction is less than 2000 ms old, and it is appended by
   every update at least 2000 ms after it. *)
C6_Recurrence ==
    (NonFocusedUpdate /\ TrailingNonFocused(poseLog) >= 10) =>
        /\ consecutiveDistractions = TrailingNonFocused(poseLog)
        /\ Cardinality(DistractionCalls) = 1
        /\ \A k \in DistractionCalls :
               LET c == addCalls[k]
                   logged == OfType(c.before, "prolonged_distraction")
               IN  /\ (\E i \in logged : c.now - c.before[i].timestamp < 2000)
                          => Unchanged(c)
                   /\ (\A i \in logged : c.now - c.before[i].timestamp >= 2000)
                          => Appended(c)

\* the eleventh frame of a run appends a second event, 2000 ms after the first
C6_Witness ==
    /\ NonFocusedUpdate
    /\ consecutiveDistractions = 11
    /\ \E k \in DistractionCalls : Appended(addCalls[k])
    /\ Cardinality(OfType(violations, "prolonged_distraction")) = 2

(* C3 as first stated: during a run of 10 or more consecutive non-focused
   updates, every 2-second window of the run, from the update that made the
   run 10 frames long to the latest update, holds exactly one logged
   prolonged_distraction. *)
C3_AnyWindow ==
    (NonFocusedUpdate /\ TrailingNonFocused(poseLog) >= 10) =>
        \A w \in thresholdAt..(lastCall.now - 2000) :
            Cardinality({i \in OfType(violations, "prolonged_distraction") :
                            /\ w <= violations[i].timestamp
                            /\ violations[i].timestamp < w + 2000}) = 1

----------------------------------------------------------------------------
\* the face confidence of the last update is in [0, 1]
ConfidenceInRange == lastCall.faceData.confidence \in 0..1000

\* 100 times the weighted sum of the four component scores returned
Weighted == score.gaze * 35 + score.headPose * 25 + score.facePresence * 25
                + score.objectsDetected * 15

(* C7: for every engine state and every input with the pose present or
   absent, a face confidence in [0, 1] and any list of objects, the overall
   score returned by updateScore is an integer in [0, 100]. *)
C7_OverallRange ==
    (Updated /\ ConfidenceInRange) => score.overall \in 0..100

\* the lowest overall score, returned for angles beyond their ranges and four prohibited objects
C7_Witness ==
    /\ Updated
    /\ ConfidenceInRange
    /\ lastCall.gazeData.present
    /\ Abs(lastCall.gazeData.headPose.yaw) > 45
    /\ Len(lastCall.objects) = 4
    /\ score.overall = 0

(* C8: for every update, whatever its numeric inputs, each of the four
   component scores gaze, headPose, facePresence and objectsDetected lies in
   [0, 100]. *)
C8_ComponentRange ==
    Updated =>
        /\ score.gaze \in 0..100
        /\ score.headPose \in 0..100
        /\ score.facePresence \in 0..100
        /\ score.objectsDetected \in 0..100

(* C9: the overall score returned by updateScore is
   round(0.35 gaze + 0.25 headPose + 0.25 facePresence + 0.15 objects) of the
   four component scores returned with it, the nearest integer with halves
   rounded up, for every input and state. *)
C9_WeightedSum ==
    Updated =>
        /\ 100 * score.overall <= Weighted + 50
        /\ Weighted + 50 < 100 * score.overall + 100

\* a weighted sum that ends in .5 and is rounded up
C9_Witness ==
    /\ Updated
    /\ ConfidenceInRange
    /\ Weighted % 100 = 50
    /\ 100 * score.overall = Weighted + 50

(* C10: the level returned is fixed by the overall score returned, in bands
   that include their lower bound: 90 and above excellent, 75..89 good,
   60..74 fair, 40..59 poor, below 40 critical; so 90 excellent, 89 good,
   75 good, 74 fair, 60 fair, 59 poor, 40 poor, 39 critical. *)
C10_LevelBands ==
    /\ Updated =>
           /\ score.level = "excellent" <=> score.overall >= 90
           /\ score.level = "good" <=> score.overall \in 75..89
           /\ score.level = "fair" <=> score.overall \in 60..74
           /\ score.level = "poor" <=> score.overall \in 40..59
           /\ score.level = "critical" <=> score.overall < 40
    /\ <<determineLevel(90), determineLevel(89), determineLevel(75), determineLevel(74),
         determineLevel(60), determineLevel(59), determineLevel(40), determineLevel(39)>>
           = <<"excellent", "good", "good", "fair", "fair", "poor", "poor", "critical">>

\* an update that returns exactly 90, the lowest excellent score
C10_Witness ==
    /\ Updated
    /\ ConfidenceInRange
    /\ score.overall = 90
    /\ score.level = "excellent"

----------------------------------------------------------------------------
\* the last update carried a pose
PoseUpdate == Updated /\ lastCall.gazeData.present

\* the focus states the gaze score of the last update is computed over
GazeWindowLength == Min(10, Len(poseLog))
GazeWindow == LastN(poseLog, GazeWindowLength)
InWindow(state) == Cardinality({i \in 1..GazeWindowLength : GazeWindow[i] = state})

(* C11: when the pose is present the gaze score is computed over the last
   min(10, n) focus states pushed, the current frame's included, as
   round((100 focused + 50 distracted) / window length), away entries
   counting 0; over an empty window the score is 50. *)
C11_GazeScore ==
    /\ PoseUpdate =>
           /\ GazeWindowLength >= 1
           /\ GazeWindow[GazeWindowLength] = lastCall.gazeData.focusState
           /\ 2 * GazeWindowLength * score.gaze
                  <= 2 * (100 * InWindow("focused") + 50 * InWindow("distracted"))
                         + GazeWindowLength
           /\ 2 * (100 * InWindow("focused") + 50 * InWindow("distracted")) + GazeWindowLength
                  < 2 * GazeWindowLength * (score.gaze + 1)
    /\ \A fs \in FocusStates : calculateGazeScore(Gaze(fs, 0, 0, 0), <<>>) = 50

\* more than 10 frames pushed: the window holds 7 focused and 3 distracted entries,
\* the focused frames before it are not counted
C11_Witness ==
    /\ PoseUpdate
    /\ Len(poseLog) > 10
    /\ poseLog[1] = "focused"
    /\ InWindow("distracted") = 3
    /\ InWindow("focused") = 7
    /\ score.gaze = 85

----------------------------------------------------------------------------
\* the fields of an AttentionScore
ScoreFields == {"overall", "gaze", "headPose", "facePresence", "objectsDetected", "level"}
Levels == {"excellent", "good", "fair", "poor", "critical"}

(* C12: in every engine state, one whose history holds only focused entries
   included, an update with the pose absent returns gaze = 0 and
   headPose = 0 in a complete AttentionScore: all six fields, the scores
   integers and the level one of the five levels. *)
C12_PoseAbsent ==
    (Updated /\ ~lastCall.gazeData.present) =>
        /\ score.gaze = 0
        /\ score.headPose = 0
        /\ DOMAIN score = ScoreFields
        /\ score.overall \in Int
        /\ score.facePresence \in Int
        /\ score.objectsDetected \in Int
        /\ score.level \in Levels

\* the pose is absent while the history holds two focused entries and nothing else
C12_Witness ==
    /\ Updated
    /\ ~lastCall.gazeData.present
    /\ gazeHistory = <<"focused", "focused">>
    /\ score.gaze = 0
    /\ score.overall > 0

\* the three angle scores in hundredths, max(0, 100 - m|angle|)
AngleScore(angle, multiplier) ==
    IF 10000 - multiplier * Abs(angle) > 0 THEN 10000 - multiplier * Abs(angle) ELSE 0
AngleSum(headPose) ==
    AngleScore(headPose.yaw, 250) + AngleScore(headPose.pitch, 333) + AngleScore(headPose.roll, 500)

(* C13: the headPose score of an update with a pose is a function of that
   frame's pitch, yaw and roll alone, whatever the history, the streak and
   the log: the mean of max(0, 100 - 2.5|yaw|), max(0, 100 - 3.33|pitch|) and
   max(0, 100 - 5|roll|) rounded to the nearest integer, so 100 when the three
   angles are 0. *)
C13_HeadPose ==
    /\ PoseUpdate =>
           /\ 300 * score.headPose <= AngleSum(lastCall.gazeData.headPose) + 150
           /\ AngleSum(lastCall.gazeData.headPose) + 150 < 300 * score.headPose + 300
           /\ (lastCall.gazeData.headPose = [pitch |-> 0, yaw |-> 0, roll |-> 0])
                  => score.headPose = 100
    /\ \A g \in GazeInputs : g.present =>
           calculateHeadPoseScore(g) = calculateHeadPoseScore(Gaze("away", g.headPose.pitch,
                                                                   g.headPose.yaw, g.headPose.roll))

\* the pose of pitch 12, yaw -18 scores 72 in an engine whose history, streak and log are not
\* those of a fresh one
C13_Witness ==
    /\ PoseUpdate
    /\ lastCall.gazeData.headPose = [pitch |-> 12, yaw |-> -18, roll |-> 0]
    /\ score.headPose = 72
    /\ Len(gazeHistory) = 2
    /\ consecutiveDistractions = 0
    /\ gazeHistory[1] = "away"
    /\ violations # <<>>

----------------------------------------------------------------------------
\* the addViolation calls of the last update for a kind
CallsOf(type) == {k \in DOMAIN addCalls : addCalls[k].violation.type = type}

\* every call goes through the dedup of addViolation: it appends or leaves the log alone
SubjectToDedup(k) == Appended(addCalls[k]) \/ Unchanged(addCalls[k])

(* C14: for every face sample (multipleFaces being faceCount > 1): with no
   face, facePresence = 0 and one no_face violation (high) is submitted to
   the log, subject to dedup; otherwise with faceCount > 1, facePresence = 30
   and one multiple_faces violation (high, carrying the face count) is
   submitted; otherwise facePresence = round(100 confidence) and no face
   violation is submitted.  At most one of the two is submitted per update. *)
C14_FacePresence ==
    Updated =>
        LET faceData == lastCall.faceData IN
        /\ ~faceData.faceDetected =>
               /\ score.facePresence = 0
               /\ Cardinality(CallsOf("no_face")) = 1
               /\ CallsOf("multiple_faces") = {}
               /\ \A k \in CallsOf("no_face") :
                      addCalls[k].violation.severity = "high" /\ SubjectToDedup(k)
        /\ (faceData.faceDetected /\ faceData.faceCount > 1) =>
               /\ score.facePresence = 30
               /\ Cardinality(CallsOf("multiple_faces")) = 1
               /\ CallsOf("no_face") = {}
               /\ \A k \in CallsOf("multiple_faces") :
                      /\ addCalls[k].violation.severity = "high"
                      /\ addCalls[k].violation.metadata.faceCount = faceData.faceCount
                      /\ SubjectToDedup(k)
        /\ (faceData.faceDetected /\ ~(faceData.faceCount > 1)) =>
               /\ 1000 * score.facePresence <= 100 * faceData.confidence + 500
               /\ 100 * faceData.confidence + 500 < 1000 * score.facePresence + 1000
               /\ CallsOf("no_face") = {}
               /\ CallsOf("multiple_faces") = {}
        /\ Cardinality(CallsOf("no_face") \cup CallsOf("multiple_faces")) <= 1

\* two faces: 30, and the multiple_faces event is appended to a log that holds a no_face event
C14_Witness ==
    /\ Updated
    /\ lastCall.faceData.faceCount = 2
    /\ score.facePresence = 30
    /\ \E k \in CallsOf("multiple_faces") :
           /\ Appended(addCalls[k])
           /\ OfType(addCalls[k].before, "no_face") # {}
           /\ addCalls[k].after[Len(addCalls[k].after)].metadata = [faceCount |-> 2]

\* the number of detections of the last update flagged prohibited
ProhibitedCount == Cardinality({i \in DOMAIN lastCall.objects : lastCall.objects[i].isProhibited})

\* lists of 0 to 5 prohibited detections, and the same with detections that are not prohibited
ProhibitedLists ==
    {<<>>, <<Phone>>, <<Phone, Book>>, <<Phone, Book, Laptop>>, <<Phone, Book, Laptop, Mouse>>,
     <<Phone, Book, Laptop, Mouse, Remote>>}
WithPerson(objects) == <<Person>> \o objects \o <<Person>>
EmptyCtx == [log |-> <<>>, calls |-> <<>>]

(* C15: with k detections flagged prohibited among any number of others the
   objects score is max(0, 100 - 30k): 100 for k = 0, then 70, 40, 10, and 0,
   never negative, for k >= 4; it does not increase with k and detections
   that are not prohibited do not change it. *)
C15_ObjectScore ==
    /\ Updated =>
           score.objectsDetected =
               (IF 100 - 30 * ProhibitedCount > 0 THEN 100 - 30 * ProhibitedCount ELSE 0)
    /\ \A objects \in ProhibitedLists :
           /\ calculateObjectScore(EmptyCtx, objects, clock).value
                  = <<100, 70, 40, 10, 0, 0>>[Len(objects) + 1]
           /\ calculateObjectScore(EmptyCtx, WithPerson(objects), clock).value
                  = calculateObjectScore(EmptyCtx, objects, clock).value

\* four prohibited detections score 0, each submitted to the log
C15_Witness ==
    /\ Updated
    /\ ProhibitedCount = 4
    /\ Cardinality(CallsOf("prohibited_object")) = 4
    /\ score.objectsDetected = 0

----------------------------------------------------------------------------
\* every update since the engine was new or cleared carried a focused pose, the last call
\* being one of them, at most 10 so far
FocusedRun ==
    /\ PoseUpdate
    /\ Len(poseLog) <= 10
    /\ \A i \in DOMAIN poseLog : poseLog[i] = "focused"

(* C16: from a fresh engine, each of 10 consecutive updates with a focused
   pose, one face of confidence 1 and no objects returns gaze = 100,
   facePresence = 100, objects = 100 and overall = round(75 + headPose / 4),
   and leaves the log empty.  The overall score is 100 exactly when the
   headPose score is at least 98, as it is with all three angles 0, and the
   level is then excellent; over the poses the classifier labels focused the
   overall score is at least 83 and the level excellent or good. *)
C16_FocusedRun ==
    FocusedRun =>
        /\ score.gaze = 100
        /\ score.facePresence = 100
        /\ score.objectsDetected = 100
        /\ violations = <<>>
        /\ addCalls = <<>>
        /\ 100 * score.overall <= 7500 + 25 * score.headPose + 50
        /\ 7500 + 25 * score.headPose + 50 < 100 * score.overall + 100
        /\ score.overall = 100 <=> score.headPose >= 98
        /\ score.overall = 100 => score.level = "excellent"
        /\ lastCall.gazeData.headPose = Pose(0, 0, 0) => score.overall = 100
        /\ score.overall >= 83
        /\ score.level \in {"excellent", "good"}

\* the tenth focused update of a fresh engine, with all angles 0, after focused frames
\* that scored less
C16_Witness ==
    /\ FocusedRun
    /\ Len(poseLog) = 10
    /\ lastCall.gazeData.headPose = Pose(0, 0, 0)
    /\ score.overall = 100
    /\ score.level = "excellent"
    /\ violations = <<>>

(* C16 as first stated: each of the 10 focused updates returns overall = 100
   and level = excellent and leaves the log empty, for every pose the
   classifier can label focused. *)
C16_AlwaysFull ==
    FocusedRun =>
        /\ score.overall = 100
        /\ score.level = "excellent"
        /\ violations = <<>>

----------------------------------------------------------------------------
\* the last update had no pose, no face and no objects
NothingSeen ==
    /\ Updated
    /\ ~lastCall.gazeData.present
    /\ ~lastCall.faceData.faceDetected
    /\ lastCall.objects = <<>>

(* C17: an update with the pose absent, the face absent and no objects
   returns gaze = 0, headPose = 0, facePresence = 0 with a no_face violation
   submitted to the log, objects = 100, overall = round(0.15 * 100) = 15 and
   level = critical. *)
C17_NothingSeen ==
    NothingSeen =>
        /\ score.gaze = 0
        /\ score.headPose = 0
        /\ score.facePresence = 0
        /\ Cardinality(CallsOf("no_face")) = 1
        /\ OfType(violations, "no_face") # {}
        /\ score.objectsDetected = 100
        /\ score.overall = 15
        /\ score.level = "critical"

\* the first update of an engine sees nothing: the no_face event is the only entry of the log
C17_Witness ==
    /\ NothingSeen
    /\ Len(violations) = 1
    /\ violations[1].type = "no_face"
    /\ violations[1].severity = "high"
    /\ score.overall = 15

(* C17 as first stated: the same update returns overall = 25. *)
C17_Overall25 ==
    NothingSeen =>
        /\ score.gaze = 0
        /\ score.headPose = 0
        /\ score.facePresence = 0
        /\ OfType(violations, "no_face") # {}
        /\ score.objectsDetected = 100
        /\ score.overall = 25
        /\ score.level = "critical"

----------------------------------------------------------------------------
\* the limits the list is asked with
ListLimits == {NoLimit} \cup {Limit(n) : n \in 0..MaxLimit}

\* a sequence of events ordered by non-increasing timestamp
NewestFirst(events) ==
    \A i, j \in DOMAIN events : i < j => events[i].timestamp >= events[j].timestamp

\* the entries of a sequence as a bag: each event with the number of its occurrences
Occurrences(events, v) == Cardinality({i \in DOMAIN events : events[i] = v})
SameEntries(a, b) ==
    /\ Len(a) = Len(b)
    /\ \A i \in DOMAIN a : Occurrences(a, a[i]) = Occurrences(b, a[i])

(* C18: getViolations() returns every log entry, ordered by non-increasing
   timestamp, and getViolations(N) for any N >= 0 returns exactly the first
   min(N, log length) entries of that ordering, never more than N. *)
C18_NewestFirst ==
    /\ SameEntries(getViolations(NoLimit), violations)
    /\ NewestFirst(getViolations(NoLimit))
    /\ \A n \in 0..MaxLimit :
           /\ getViolations(Limit(n))
                  = SubSeq(getViolations(NoLimit), 1, Min(n, Len(violations)))
           /\ Len(getViolations(Limit(n))) <= n

----------------------------------------------------------------------------
ViolationTypes ==
    {"gaze_away", "multiple_faces", "no_face", "prohibited_object", "prolonged_distraction"}
Severities == {"low", "medium", "high"}

\* the number of log entries whose field has this value
CountOf(field, value) == Cardinality({i \in DOMAIN violations : violations[i][field] = value})

\* the count an aggregate reports for a key: a key it does not hold reports no entry
Reported(counts, key) == IF key \in DOMAIN counts THEN counts[key] ELSE 0

RECURSIVE SumOf(_, _)
SumOf(counts, keys) ==
    IF keys = {} THEN 0
    ELSE LET key == CHOOSE k \in keys : TRUE IN counts[key] + SumOf(counts, keys \ {key})

(* C20: in every reachable state getStats reports for each kind the number
   of log entries of that kind and for each severity the number of log
   entries of that severity (a kind or severity without entries has no key);
   the counts by kind and the counts by severity each sum to
   totalViolations, which is the length of the log. *)
C20_Stats ==
    LET stats == getStats IN
    /\ stats.totalViolations = Len(violations)
    /\ DOMAIN stats.byType \subseteq ViolationTypes
    /\ DOMAIN stats.bySeverity \subseteq Severities
    /\ \A type \in ViolationTypes :
           /\ Reported(stats.byType, type) = CountOf("type", type)
           /\ type \in DOMAIN stats.byType => stats.byType[type] >= 1
    /\ \A severity \in Severities :
           /\ Reported(stats.bySeverity, severity) = CountOf("severity", severity)
           /\ severity \in DOMAIN stats.bySeverity => stats.bySeverity[severity] >= 1
    /\ SumOf(stats.byType, DOMAIN stats.byType) = stats.totalViolations
    /\ SumOf(stats.bySeverity, DOMAIN stats.bySeverity) = stats.totalViolations

\* two prolonged_distraction events (medium) and events of two other kinds (high) in the log
C20_Witness ==
    /\ getStats.totalViolations >= 4
    /\ DOMAIN getStats.byType = {"prolonged_distraction", "no_face", "prohibited_object"}
    /\ getStats.byType["prolonged_distraction"] = 2
    /\ getStats.bySeverity["medium"] = 2
    /\ getStats.bySeverity["high"] >= 2

----------------------------------------------------------------------------
\* the kinds submitted by the update that leads to the next state
KindsSubmitted == {addCalls'[k].violation.type : k \in DOMAIN addCalls'}

\* the next state is the one a new engine is in after this update as its first, made now
AsFirstUpdate ==
    /\ gazeHistory' = (IF lastCall'.gazeData.present
                       THEN <<lastCall'.gazeData.focusState>> ELSE <<>>)
    /\ consecutiveDistractions' = (IF lastCall'.gazeData.present
                                      /\ lastCall'.gazeData.focusState # "focused"
                                   THEN 1 ELSE 0)
    /\ "prolonged_distraction" \notin KindsSubmitted
    /\ Len(violations') = Cardinality(KindsSubmitted)
    /\ \A type \in KindsSubmitted :
           \E i \in DOMAIN violations' :
               violations'[i].type = type /\ violations'[i].timestamp = clock'
    /\ ~lastCall'.faceData.faceDetected => violations'[1].type = "no_face"

(* C19: clearViolations empties the log and the history and sets the streak
   to 0, from any reachable state; the update that follows it leaves the
   engine as it leaves a new one: every kind it submits is logged with the
   time of the update, whatever was logged before the clear, and the history
   and the streak start over, so that no prolonged_distraction is logged
   before 10 frames with a pose have followed the clear. *)
C19_ClearResets ==
    [][ /\ lastCall'.op = "clearViolations" =>
               /\ violations' = <<>>
               /\ gazeHistory' = <<>>
               /\ consecutiveDistractions' = 0
        /\ (lastCall.op = "clearViolations" /\ lastCall'.op = "updateScore") => AsFirstUpdate
        /\ Len(poseLog') < 10 => OfType(violations', "prolonged_distraction") = {}
      ]_vars

\* cleared right after an update without a face, which came at a streak of 9 or more and
\* submitted no_face at the time the clock still shows
C19_Witness ==
    /\ lastCall.op = "clearViolations"
    /\ clock > 0
    /\ score # NoScore
    /\ score.facePresence = 0
    /\ violations = <<>>
    /\ gazeHistory = <<>>
    /\ consecutiveDistractions = 0

----------------------------------------------------------------------------
(* C30: with a clock that never goes back, any two events of the same kind
   that are in the log together have timestamps at least 2000 ms apart,
   whatever kinds were logged between them: scanning only the 5 most recent
   entries never lets a same-kind event inside the window through. *)
C30_SameKindApart ==
    \A i, j \in DOMAIN violations :
        (i < j /\ violations[i].type = violations[j].type)
            => violations[j].timestamp - violations[i].timestamp >= DEDUP_WINDOW_MS

\* every one of the four kinds is in the log twice: eight entries, the kinds interleaved
C30_Witness ==
    /\ Len(violations) = 8
    /\ \A type \in {"prolonged_distraction", "no_face", "multiple_faces", "prohibited_object"} :
            Cardinality(OfType(violations, type)) = 2
    /\ \E i, j \in DOMAIN violations :
            /\ j - i >= 3
            /\ violations[i].type = violations[j].type

----------------------------------------------------------------------------
(* C22: at every moment the events in the violation log have pairwise
   distinct ids, the id of an event being made of its kind and of the
   millisecond clock value at its creation only. *)
C22_DistinctIds ==
    /\ \A i \in DOMAIN violations :
            violations[i].id = <<violations[i].type, violations[i].timestamp>>
    /\ \A i, j \in DOMAIN violations : i # j => violations[i].id # violations[j].id

\* the log holds two events created in the same millisecond and two events of one kind
C22_Witness ==
    \E i, j, k \in DOMAIN violations :
        /\ i < j /\ j < k
        /\ violations[i].timestamp = violations[j].timestamp
        /\ violations[i].type # violations[j].type
        /\ violations[k].type = violations[i].type
        /\ violations[k].id # violations[i].id

----------------------------------------------------------------------------
\* the estimator was given the landmarks of a face, and returned a sample for them
FaceClassified ==
    /\ classified.results.initialized
    /\ ~classified.results.threw
    /\ Len(classified.results.faceLandmarks) > 0

(* C23: for every head pose and eye aspect ratio, lookingAtScreen is true if
   and only if |yaw| < 20, |pitch| < 15 and the eye aspect ratio is above
   0.15, the three comparisons strict; the roll plays no part. *)
C23_LookingAtScreen ==
    FaceClassified =>
        LET gaze == classified.gaze IN
            /\ gaze.lookingAtScreen <=>
                    (/\ gaze.headPose.yaw < 20 /\ gaze.headPose.yaw > -20
                     /\ gaze.headPose.pitch < 15 /\ gaze.headPose.pitch > -15
                     /\ gaze.eyeAspectRatio > 150)
            /\ \A roll \in RawRolls :
                    isLookingAtScreen([gaze.headPose EXCEPT !.roll = roll], gaze.eyeAspectRatio)
                        = gaze.lookingAtScreen

\* a sample just inside the three thresholds, with the roll at its bound: looking at the screen
C23_Witness ==
    /\ FaceClassified
    /\ classified.gaze.headPose = Pose(14, 19, 20)
    /\ classified.gaze.eyeAspectRatio = 151
    /\ classified.gaze.lookingAtScreen

(* C24: the focus state is the first match of: focused if lookingAtScreen and
   the eye aspect ratio is above 0.20; away if |yaw| > 35 or |pitch| > 25;
   distracted otherwise.  So every focused sample has |yaw| < 20 and
   |pitch| < 15, and a sample with |yaw| < 20, |pitch| < 15 and an eye aspect
   ratio of at most 0.20 is distracted, never away. *)
C24_FocusState ==
    FaceClassified =>
        LET gaze == classified.gaze
            yaw == Abs(gaze.headPose.yaw)
            pitch == Abs(gaze.headPose.pitch)
        IN  /\ gaze.focusState = "focused"
                    <=> (gaze.lookingAtScreen /\ gaze.eyeAspectRatio > 200)
            /\ gaze.focusState = "away"
                    <=> (/\ ~(gaze.lookingAtScreen /\ gaze.eyeAspectRatio > 200)
                         /\ (yaw > 35 \/ pitch > 25))
            /\ gaze.focusState = "distracted"
                    <=> (/\ ~(gaze.lookingAtScreen /\ gaze.eyeAspectRatio > 200)
                         /\ yaw <= 35 /\ pitch <= 25)
            /\ gaze.focusState = "focused" => (yaw < 20 /\ pitch < 15)
            /\ (yaw < 20 /\ pitch < 15 /\ gaze.eyeAspectRatio <= 200)
                    => gaze.focusState = "distracted"

\* a sample that looks at the screen with eyes at 0.20: distracted
C24_Witness ==
    /\ FaceClassified
    /\ classified.gaze.lookingAtScreen
    /\ classified.gaze.eyeAspectRatio = 200
    /\ classified.gaze.headPose.yaw = 19
    /\ classified.gaze.focusState = "distracted"

(* C25: when no face landmarks are detected in a frame, estimateGaze returns
   a sample, not an absent pose and not an error: focus state away, pitch,
   yaw and roll 0, eye aspect ratio 0 and lookingAtScreen false. *)
C25_NoLandmarks ==
    (/\ classified.results.initialized
     /\ ~classified.results.threw
     /\ classified.results.faceLandmarks = <<>>)
        => /\ classified.gaze.present
           /\ classified.gaze.focusState = "away"
           /\ classified.gaze.headPose = Pose(0, 0, 0)
           /\ classified.gaze.eyeAspectRatio = 0
           /\ classified.gaze.lookingAtScreen = FALSE

\* a frame without landmarks was classified, and a sample came back
C25_Witness ==
    /\ classified.results = NoLandmarks
    /\ classified.gaze.present
    /\ classified.gaze.focusState = "away"

(* C26: every sample the estimator produces from landmarks has its pitch in
   [-30, 30], its yaw in [-45, 45] and its roll in [-20, 20]; each angle is
   the raw angle when that is in range and the nearest bound otherwise,
   independently of the two others, and a sample is returned all the same. *)
C26_Clamped ==
    FaceClassified =>
        LET raw == classified.results.faceLandmarks[1].raw
            headPose == classified.gaze.headPose
            Nearest(angle, bound) ==
                IF angle > bound THEN bound ELSE IF angle < -bound THEN -bound ELSE angle
        IN  /\ classified.gaze.present
            /\ headPose.pitch \in -30..30
            /\ headPose.yaw \in -45..45
            /\ headPose.roll \in -20..20
            /\ headPose.pitch = Nearest(raw.pitch, 30)
            /\ headPose.yaw = Nearest(raw.yaw, 45)
            /\ headPose.roll = Nearest(raw.roll, 20)

\* a raw roll of -90 and a raw yaw of 46 are clamped, next to a pitch that is in range
C26_Witness ==
    /\ FaceClassified
    /\ classified.results.faceLandmarks[1].raw = Pose(14, 46, -90)
    /\ classified.gaze.headPose = Pose(14, 45, -20)

----------------------------------------------------------------------------
\* the log after a step holds the log before it, entry for entry, at its beginning
Extended ==
    /\ Len(violations') >= Len(violations)
    /\ SubSeq(violations', 1, Len(violations)) = violations

(* C21: the violation log is append-only.  A step of updateScore leaves the
   entries of the log in place and unmodified and adds its events at the
   end; a call of getViolations or getStats leaves the log, the history and
   the streak as they are (what getViolations sorts is a copy); the log
   loses or moves an entry only in a step of clearViolations. *)
C21_AppendOnly ==
    [][/\ lastCall'.op = "updateScore" => Extended
       /\ lastCall'.op \in {"getViolations", "getStats"}
            => /\ violations' = violations
               /\ gazeHistory' = gazeHistory
               /\ consecutiveDistractions' = consecutiveDistractions
       /\ ~Extended => (lastCall'.op = "clearViolations" /\ violations' = <<>>)]_vars

\* getViolations has returned, newest first, a log of three entries that is not in that
\* order, and the log is as the updates left it
C21_Witness ==
    /\ lastCall.op = "getViolations"
    /\ ~lastCall.limit.present
    /\ Len(violations) >= 3
    /\ lastCall.result # violations
    /\ SameEntries(lastCall.result, violations)
    /\ \A i \in 1..(Len(violations) - 1) :
            violations[i].timestamp <= violations[i + 1].timestamp

----------------------------------------------------------------------------
\* the processFrames chains that have not ended
Live == {k \in DOMAIN chains : chains[k].pc # "cancelled"}

\* the last update was not given a frame captured before the frame of the update before it
CaptureOrder == lastFrame.n > 0 => lastFrame.inOrder

(* C27: the frame loop calls updateScore once per captured frame, one call
   after the other, in the order of the capture timestamps of the frames:
   whatever the order of clicks on Start/Stop and of the completions of the
   analyses, at most one chain of frame processing is in flight. *)
C27_OneChain ==
    /\ Cardinality(Live) <= 1
    /\ CaptureOrder

\* the step is the completion of the analyses of a frame
FrameStep == lastFrame'.n = lastFrame.n + 1

(* C28: a fault while a frame is processed does not interrupt monitoring.
   A throw inside an analysis is caught by the analysis, which returns its
   fallback (gaze: the absent pose; face: the no-face result; objects: no
   detection), and updateScore runs on the results all the same: with a gaze
   fault history and streak stay as they were, with a face fault
   facePresence is 0 and a no_face violation is submitted, with an object
   fault objectsDetected is 100; the log is only extended.  A throw after
   the update is caught by processFrames.  In every case the chain requests
   the next frame and isMonitoring is as before. *)
C28_FaultTolerated ==
    [][FrameStep =>
        /\ lastCall'.op = "updateScore"
        /\ "gaze" \in lastFrame'.faults
                => /\ lastCall'.gazeData = NoGaze
                   /\ gazeHistory' = gazeHistory
                   /\ consecutiveDistractions' = consecutiveDistractions
        /\ "face" \in lastFrame'.faults
                => /\ lastCall'.faceData = NoFace
                   /\ score'.facePresence = 0
                   /\ \E i \in DOMAIN addCalls' : addCalls'[i].violation.type = "no_face"
        /\ "objects" \in lastFrame'.faults
                => /\ lastCall'.objects = <<>>
                   /\ score'.objectsDetected = 100
        /\ Extended
        /\ chains'[lastFrame'.chain].pc = "requested"
        /\ animationFrameRef' = lastFrame'.chain
        /\ isMonitoring' = isMonitoring]_vars

\* the face analysis of a frame threw: a no_face event is in the log that was not there
\* before the frame, and the chain has requested the next frame
C28_Witness ==
    /\ lastFrame.n > 0
    /\ "face" \in lastFrame.faults
    /\ Len(violations) > Len(lastFrame.before.violations)
    /\ violations[Len(violations)].type = "no_face"
    /\ chains[lastFrame.chain].pc = "requested"
    /\ animationFrameRef = lastFrame.chain

(* C28 as first stated: when an analysis or the scoring step of a frame
   throws, the engine state is left as it was before that frame's update. *)
C28_StateKept ==
    (lastFrame.n > 0 /\ lastFrame.faults # {})
        => /\ violations = lastFrame.before.violations
           /\ gazeHistory = lastFrame.before.gazeHistory
           /\ consecutiveDistractions = lastFrame.before.consecutiveDistractions

----------------------------------------------------------------------------
\* the kinds the engine logs, and the severity it gives each
LoggedKinds == {"prolonged_distraction", "no_face", "multiple_faces", "prohibited_object"}
SeverityOf(type) == IF type = "prolonged_distraction" THEN "medium" ELSE "high"

(* C33: every event in the log has one of the kinds prolonged_distraction,
   no_face, multiple_faces, prohibited_object, and the severity of its kind:
   medium for prolonged_distraction, high for the three others.  No event of
   kind gaze_away and no event of severity low is ever in the log. *)
C33_KindsLogged ==
    \A i \in DOMAIN violations :
        /\ violations[i].type \in LoggedKinds
        /\ violations[i].severity = SeverityOf(violations[i].type)
        /\ violations[i].type # "gaze_away"
        /\ violations[i].severity # "low"

\* the four kinds are in the log, logged from frames looking away
C33_Witness ==
    /\ \A type \in LoggedKinds : OfType(violations, type) # {}
    /\ \E i \in DOMAIN violations :
            /\ violations[i].type = "prolonged_distraction"
            /\ violations[i].severity = "medium"
            /\ violations[i].metadata.focusState = "away"

----------------------------------------------------------------------------
\* the events the last update appended to the log, in the order of the log
AppendedEvents ==
    IF addCalls = <<>> THEN <<>>
    ELSE SubSeq(violations, Len(addCalls[1].before) + 1, Len(violations))

\* the place of a kind in the order of the calls of updateScore
Rank(type) ==
    CASE type = "prolonged_distraction" -> 1
      [] type \in {"no_face", "multiple_faces"} -> 2
      [] type = "prohibited_object" -> 3
      [] OTHER -> 0

\* the detections of the last update whose isProhibited flag is set, in the order given
ProhibitedGiven == SelectSeq(lastCall.objects, LAMBDA obj : obj.isProhibited)

(* C32: one updateScore call appends at most one event of each kind, in the
   order prolonged_distraction, then no_face or multiple_faces, then
   prohibited_object.  A frame with 2 or more prohibited detections appends
   at most one prohibited_object event, which carries the label and score of
   the first prohibited detection; the calls for the others are suppressed
   by the dedup. *)
C32_OnePerKind ==
    Updated =>
        LET added == AppendedEvents IN
            /\ \A i, j \in DOMAIN added : i < j => Rank(added[i].type) < Rank(added[j].type)
            /\ \A i \in DOMAIN added : Rank(added[i].type) > 0
            /\ \A i \in DOMAIN added :
                    added[i].type = "prohibited_object"
                        => /\ added[i].metadata.object = ProhibitedGiven[1].label
                           /\ added[i].metadata.confidence = ProhibitedGiven[1].score
            /\ \A c \in CallsOf("prohibited_object") :
                    (c > 1 /\ addCalls[c - 1].violation.type = "prohibited_object")
                        => Unchanged(addCalls[c])

\* an update with two prohibited detections appended three events: prolonged_distraction,
\* no_face and one prohibited_object carrying the first of the two, the book
C32_Witness ==
    /\ Updated
    /\ Len(ProhibitedGiven) = 2
    /\ Len(AppendedEvents) = 3
    /\ AppendedEvents[1].type = "prolonged_distraction"
    /\ AppendedEvents[2].type = "no_face"
    /\ AppendedEvents[3].type = "prohibited_object"
    /\ AppendedEvents[3].metadata.object = "book"
    /\ Cardinality(CallsOf("prohibited_object")) = 2

----------------------------------------------------------------------------
\* the last call was an update without a pose
AbsentUpdate == lastCall.op = "updateScore" /\ ~lastCall.gazeData.present

(* C34: an update with the pose absent leaves the history and the streak as
   they are and submits no prolonged_distraction violation.  Frames without a
   pose neither extend nor reset a run: the non-focused frame that comes
   after them adds 1 to the streak the run had before them. *)
C34_PoseAbsentFrame ==
    [][/\ AbsentUpdate'
            => /\ gazeHistory' = gazeHistory
               /\ consecutiveDistractions' = consecutiveDistractions
               /\ DistractionCalls' = {}
       /\ (/\ AbsentUpdate
           /\ lastCall' # lastCall
           /\ lastCall'.op = "updateScore"
           /\ lastCall'.gazeData.present
           /\ lastCall'.gazeData.focusState # "focused")
            => consecutiveDistractions' = consecutiveDistractions + 1]_vars

\* a frame without a pose came during a run of 10 frames or more, 2000 ms or more after
\* the prolonged_distraction event of the run: nothing was submitted, the run is as it was
C34_Witness ==
    /\ AbsentUpdate
    /\ consecutiveDistractions >= 10
    /\ Len(gazeHistory) >= 10
    /\ addCalls = <<>>
    /\ OfType(violations, "prolonged_distraction") # {}
    /\ \A i \in OfType(violations, "prolonged_distraction") :
            clock - violations[i].timestamp >= 2000

----------------------------------------------------------------------------
(* C31: after stopMonitoring no further frame is scheduled, also when it runs
   while a processFrames invocation is suspended at its await.  stopMonitoring
   leaves animationFrameRef undefined and isMonitoring false, and every request
   for a frame stores its id in animationFrameRef, so while monitoring is off
   the reference stays undefined and no request is pending. *)
C31_NothingScheduled ==
    ~isMonitoring =>
        /\ animationFrameRef = 0
        /\ \A k \in DOMAIN chains : chains[k].pc # "requested"

====
